---- MODULE Spec2Model ----
(***************************************************************************)
(* lotwire: an in-memory log sink (LogServer) that keeps the most recent   *)
(* log records in a mutex-guarded ring buffer and serves them over HTTP    *)
(* (GET /logs).  Modelled from src/src/lib.rs.                             *)
(*                                                                         *)
(* A LogServer value is identified by the index of the init() call that    *)
(* made it: clones of it (the one stored in SERVER, the one boxed by       *)
(* init_logger, the one managed by Rocket) share its Arc'd buffer, so they *)
(* are the same index here.                                                *)
(***************************************************************************)
EXTENDS Integers, Sequences, FiniteSets, TLC

\* ------------------------------------------------------------------ bounds
NumWriters == 2
MaxSinks == 2
MaxCap == 2
MaxCalls == 3

Writers == 1..NumWriters
SinkIds == 1..MaxSinks

\* ------------------------------------------------------------------ inputs
\* log::Level
Levels == {"Error", "Warn", "Info", "Debug", "Trace"}

\* Module names (record.target()) are character sequences, so that
\* String::contains is a real substring search.
ModApp == <<"a","p","p">>
ModRocksdb == <<"r","o","c","k","s","d","b">>
ModRocket == <<"r","o","c","k","e","t",":",":","s","e","r","v","e","r">>
ModReqwest == <<"r","e","q","w","e","s","t",":",":","c","o","n","n","e","c","t">>
ModMyRocket == <<"m","y","_","r","o","c","k","e","t">>
Modules == {ModApp, ModRocksdb, ModRocket, ModReqwest, ModMyRocket}

\* The log records the writers submit under Spec: an Info record from a
\* module whose name only starts like "rocket", a Debug record from an
\* application module, and an Error record from every other module
Records ==
    { <<"Info", ModRocksdb, "started">>, <<"Debug", ModApp, "polling">>,
      <<"Error", ModRocket, "failed">>, <<"Error", ModReqwest, "failed">>,
      <<"Error", ModMyRocket, "failed">> }

\* The log records the writer submits under SpecWiring
WiringRecords ==
    { <<"Debug", ModApp, "Debug">>, <<"Error", ModApp, "Error">>,
      <<"Error", ModRocket, "Error">>, <<"Debug", ModReqwest, "Debug">> }

\* The log records the writers submit under SpecLive
LiveRecords == { <<"Error", ModApp, "Error">>, <<"Error", ModRocket, "Error">> }

\* The minimum levels the sink is configured with under Spec
SinkLevels == {"Info", "Trace"}

\* The port of the Settings under Spec, SpecWiring, SpecEnabled and SpecHttp
TestPort == 8080

\* The ports given to Settings::with_values under SpecBind: port is a u32
Ports == {8080, 65535, 73616, 2147483647}

PatRocket == <<"r","o","c","k","e","t">>
PatReqwest == <<"r","e","q","w","e","s","t">>

\* ------------------------------------------------------------------ state
VARIABLES
    sinks,      \* sinks[i]: the Settings of the i-th LogServer made by init()
                \* (the address is left out)
    SERVER,     \* the global SERVER: 0 is LogServer::default(), else a sink
    logger,     \* the log facade's boxed logger: 0 is none, else a sink
    buffer,     \* buffer[i]: the ring buffer of sink i, oldest first
    lock,       \* lock[i]: holder of buffer i's mutex (0: free); lock[0] is
                \* the mutex of the global SERVER
    writer,     \* writer[w]: a writer thread's position in log()/enabled()
    srv,        \* the server thread: its position, the LogServer start_server
                \* was called on (by), its managed LogServer, how many items
                \* the registered logger had been given when it started, and
                \* the port it listens on (-1: none)
    req,        \* the HTTP request in flight and its response; seen and total
                \* are the served buffer's pushed count when the handler
                \* started and when it copied the items
    pushed,     \* pushed[i]: how many items were pushed into buffer i so far
    ncalls      \* number of log()/enabled() calls made so far

vars == <<sinks, SERVER, logger, buffer, lock, writer, srv, req, pushed, ncalls>>

NoItem == [level |-> "", module |-> <<>>, message |-> "", by |-> 0, seq |-> 0]
IdleWriter == [pc |-> "idle", sink |-> 0, level |-> "", item |-> NoItem,
               ret |-> FALSE]
IdleReq == [pc |-> "idle", route |-> "", status |-> 0, headers |-> {},
            items |-> <<>>, body |-> <<>>, seen |-> 0, total |-> 0]
HttpHolder == NumWriters + 1
StartHolder == NumWriters + 2

\* ------------------------------------------------------------------ helpers
\* log::Level's derived order: Error = 1 ... Trace = 5
LevelOrd(l) ==
    CASE l = "Error" -> 1
      [] l = "Warn" -> 2
      [] l = "Info" -> 3
      [] l = "Debug" -> 4
      [] l = "Trace" -> 5

\* impl Display for log::Level, used by record.level().to_string()
LevelToString(l) ==
    CASE l = "Error" -> "ERROR"
      [] l = "Warn" -> "WARN"
      [] l = "Info" -> "INFO"
      [] l = "Debug" -> "DEBUG"
      [] l = "Trace" -> "TRACE"

\* str::contains
Contains(s, p) ==
    \E i \in 1..(Len(s) - Len(p) + 1) : SubSeq(s, i, i + Len(p) - 1) = p

\* Mutant of Excluded: the second pattern is forgotten
ExcludedRocketOnly(module) == Contains(module, PatRocket)

\* module.contains("rocket") || module.contains("reqwest")
Excluded(module) == Contains(module, PatRocket) \/ Contains(module, PatReqwest)

\* Mutant of Enabled: the comparison is strict
EnabledStrict(s, level) == LevelOrd(level) < LevelOrd(sinks[s].level)

\* LogServer::enabled: metadata.level() <= settings.level
Enabled(s, level) == LevelOrd(level) <= LevelOrd(sinks[s].level)

\* LogItem { level, module, message }.  Two tags follow the item through the
\* model: by, the thread whose log() call built it, and seq, its position
\* among the items pushed into its buffer (set when it is pushed).
MkItem(w, level, module, message) ==
    [level |-> LevelToString(level), module |-> module, message |-> message,
     by |-> w, seq |-> 0]

\* Mutants of RingPush: a push that never evicts, one that evicts the newest
\* element, and one that empties a full buffer
RingPushNoEvict(buf, cap, item) == Append(buf, item)

RingPushEvictNewest(buf, cap, item) ==
    IF Len(buf) >= cap THEN Append(SubSeq(buf, 1, Len(buf) - 1), item)
    ELSE Append(buf, item)

RingPushClearOnFull(buf, cap, item) ==
    IF Len(buf) >= cap THEN <<item>> ELSE Append(buf, item)

\* Mutant of RingPush: the value is written at the front
RingPushFront(buf, cap, item) ==
    IF Len(buf) >= cap THEN <<item>> \o SubSeq(buf, 1, Len(buf) - 1)
    ELSE <<item>> \o buf

\* AllocRingBuffer::push on a buffer of capacity cap: a full buffer drops its
\* oldest element, then the value is written at the end
RingPush(buf, cap, item) ==
    IF Len(buf) >= cap THEN Append(Tail(buf), item) ELSE Append(buf, item)

Constructed == 1..Len(sinks)

\* The LogServer values a caller can hold: the ones init() made, and
\* LogServer::default() (0), whose settings and buffer are None
Obtainable == Constructed \cup {0}

\* A thread that panicked in a call on LogServer s
Panicked(s, level) ==
    [pc |-> "panicked", sink |-> s, level |-> level, item |-> NoItem,
     ret |-> FALSE]

\* ------------------------------------------------------------------ init
Init ==
    /\ sinks = <<>>
    /\ SERVER = 0
    /\ logger = 0
    /\ buffer = [i \in SinkIds |-> <<>>]
    /\ lock = [i \in 0..MaxSinks |-> 0]
    /\ writer = [w \in Writers |-> IdleWriter]
    /\ srv = [pc |-> "none", by |-> 0, managed |-> 0, before |-> 0, port |-> -1]
    /\ req = IdleReq
    /\ pushed = [i \in SinkIds |-> 0]
    /\ ncalls = 0


\* ------------------------------------------------------------------ bootstrap
\* Mutant of LockFree: the mutex excludes nobody
LockAlwaysFree(s) == lock[s] \in 0..StartHolder

\* Whether a thread may take mutex s (a buffer's, or 0: the one of SERVER)
LockFree(s) == lock[s] = 0

\* Settings::with_values
with_values(port, level, num_records) ==
    [port |-> port, level |-> level, num_records |-> num_records]

\* LogServer::init: a new buffer of num_records slots, and the new LogServer
\* replaces the global SERVER (the statement takes the SERVER mutex, stores
\* the clone and drops the guard)
init(settings) ==
    /\ Len(sinks) < Len(buffer)
    /\ LockFree(0)
    /\ sinks' = Append(sinks, settings)
    /\ SERVER' = Len(sinks) + 1
    /\ UNCHANGED <<logger, buffer, lock, writer, srv, req, pushed, ncalls>>

\* LogServer::with_settings -> LogServer::init
with_settings(level, num_records) ==
    init(with_values(TestPort, level, num_records))

\* LogServer::init_logger: box a clone of self as the facade's logger.  Only
\* the first call succeeds: set_boxed_logger fails once a logger is set, the
\* unwrap panics in the caller and the registered logger stays as it is.
init_logger(s) ==
    /\ s \in Constructed
    /\ logger = 0
    /\ logger' = s
    /\ UNCHANGED <<sinks, SERVER, buffer, lock, writer, srv, req, pushed, ncalls>>

\* LogServer::start_server: spawn the server thread; self is not handed to it
start_server(s) ==
    /\ s \in Constructed
    /\ srv.pc = "none"
    /\ srv' = [pc |-> "spawned", by |-> s, managed |-> 0, before |-> 0,
               port |-> -1]
    /\ UNCHANGED <<sinks, SERVER, logger, buffer, lock, writer, req, pushed,
                   ncalls>>

\* The LogServer that start() clones from the global SERVER
ManagedServer == SERVER

\* LogServer::start: SERVER.lock().unwrap()
start_lock ==
    /\ srv.pc = "spawned"
    /\ LockFree(0)
    /\ lock' = [lock EXCEPT ![0] = StartHolder]
    /\ srv' = [srv EXCEPT !.pc = "start_locked"]
    /\ UNCHANGED <<sinks, SERVER, logger, buffer, writer, req, pushed, ncalls>>

\* LogServer::start: the LogServer in SERVER is cloned and the guard dropped
start_clone ==
    /\ srv.pc = "start_locked"
    /\ lock' = [lock EXCEPT ![0] = 0]
    /\ srv' = [srv EXCEPT !.pc = "cloned", !.managed = ManagedServer]
    /\ UNCHANGED <<sinks, SERVER, logger, buffer, writer, req, pushed, ncalls>>

\* How many items the registered logger's buffer has been given so far
RegisteredPushed == IF logger = 0 THEN 0 ELSE pushed[logger]

\* The range of u16
U16 == 65536

\* rocket::Config { port: settings.port as u16, .. }: the cast keeps the low
\* 16 bits of the u32
ConfigPort(settings) == settings.port % U16

\* LogServer::start, launch succeeds: the settings of the clone are unwrapped,
\* the clone becomes Rocket's managed state, and Rocket listens on the
\* configured port
start_ok ==
    /\ srv.pc = "cloned"
    /\ srv.managed \in Constructed
    /\ srv' = [srv EXCEPT !.pc = "serving", !.before = RegisteredPushed,
                          !.port = ConfigPort(sinks[srv.managed])]
    /\ UNCHANGED <<sinks, SERVER, logger, buffer, lock, writer, req, pushed,
                   ncalls>>

\* Mutant of start_fail: the failure does not stay in the server thread, the
\* buffer of the LogServer it read is left locked
start_fail_locks_buffer ==
    /\ srv.pc = "cloned"
    /\ srv' = [srv EXCEPT !.pc = "failed", !.before = RegisteredPushed]
    /\ lock' = [lock EXCEPT ![srv.managed] = HttpHolder]
    /\ UNCHANGED <<sinks, SERVER, logger, buffer, writer, req, pushed, ncalls>>

\* LogServer::start, launch fails (the bind fails): start returns Err and the
\* unwrap in the spawned thread panics
start_fail ==
    /\ srv.pc = "cloned"
    /\ srv' = [srv EXCEPT !.pc = "failed", !.before = RegisteredPushed]
    /\ UNCHANGED <<sinks, SERVER, logger, buffer, lock, writer, req, pushed,
                   ncalls>>

\* ------------------------------------------------------------------ the sink
\* Mutant of Accepts: a full buffer turns the record away
AcceptsUnlessFull(s, level, module) ==
    /\ Enabled(s, level)
    /\ ~Excluded(module)
    /\ Len(buffer[s]) < sinks[s].num_records

\* Whether log() goes on to push: the enabled check, then the self-exclusion
\* filter
Accepts(s, level, module) == Enabled(s, level) /\ ~Excluded(module)

\* LogServer::log up to the lock: the enabled check, the self-exclusion
\* filter and the construction of the LogItem.  A rejected call returns here.
\* On LogServer::default() the enabled check unwraps settings: None and panics.
log(w, s, level, module, message) ==
    /\ writer[w].pc = "idle"
    /\ ncalls < MaxCalls
    /\ s \in Obtainable
    /\ ncalls' = ncalls + 1
    /\ IF s \notin Constructed
         THEN writer' = [writer EXCEPT ![w] = Panicked(s, level)]
         ELSE IF Accepts(s, level, module)
         THEN writer' = [writer EXCEPT ![w] =
                  [pc |-> "wait", sink |-> s, level |-> level,
                   item |-> MkItem(w, level, module, message),
                   ret |-> FALSE]]
         ELSE UNCHANGED writer
    /\ UNCHANGED <<sinks, SERVER, logger, buffer, lock, srv, req, pushed>>

\* self.buffer...lock().unwrap()
log_lock(w) ==
    /\ writer[w].pc = "wait"
    /\ LockFree(writer[w].sink)
    /\ lock' = [lock EXCEPT ![writer[w].sink] = w]
    /\ writer' = [writer EXCEPT ![w].pc = "locked"]
    /\ UNCHANGED <<sinks, SERVER, logger, buffer, srv, req, pushed, ncalls>>

\* .push(item); the guard is dropped at the end of the statement and log returns
log_push(w) ==
    /\ writer[w].pc = "locked"
    /\ LET s == writer[w].sink IN
         /\ buffer' = [buffer EXCEPT ![s] =
                RingPush(buffer[s], sinks[s].num_records,
                         [writer[w].item EXCEPT !.seq = pushed[s] + 1])]
         /\ pushed' = [pushed EXCEPT ![s] = pushed[s] + 1]
         /\ lock' = [lock EXCEPT ![s] = 0]
    /\ writer' = [writer EXCEPT ![w] = IdleWriter]
    /\ UNCHANGED <<sinks, SERVER, logger, srv, req, ncalls>>

\* LogServer::enabled called on a LogServer value; on LogServer::default()
\* self.settings.as_ref().unwrap() panics
enabled(w, s, level) ==
    /\ writer[w].pc = "idle"
    /\ ncalls < MaxCalls
    /\ s \in Obtainable
    /\ ncalls' = ncalls + 1
    /\ IF s \notin Constructed
         THEN writer' = [writer EXCEPT ![w] = Panicked(s, level)]
         ELSE writer' = [writer EXCEPT ![w] =
                  [pc |-> "enabled_ret", sink |-> s, level |-> level,
                   item |-> NoItem, ret |-> Enabled(s, level)]]
    /\ UNCHANGED <<sinks, SERVER, logger, buffer, lock, srv, req, pushed>>

enabled_return(w) ==
    /\ writer[w].pc = "enabled_ret"
    /\ writer' = [writer EXCEPT ![w] = IdleWriter]
    /\ UNCHANGED <<sinks, SERVER, logger, buffer, lock, srv, req, pushed, ncalls>>

\* ------------------------------------------------------------------ HTTP
\* Mutant of ToJson: level and message change places
ToJsonSwapped(items) ==
    [i \in 1..Len(items) |->
        [level |-> items[i].message, module |-> items[i].module,
         message |-> items[i].level]]

\* serde's Serialize for Vec<LogItem>: an array of objects with the three
\* fields of LogItem, in the order of the vector
ToJson(items) ==
    [i \in 1..Len(items) |->
        [level |-> items[i].level, module |-> items[i].module,
         message |-> items[i].message]]

\* A request arrives at the serving Rocket instance
CanRequest == srv.pc = "serving" /\ req.pc \in {"idle", "sent"}

\* GET /logs is routed to logs(): the handler clones the managed buffer's Arc
get_logs ==
    /\ CanRequest
    /\ req' = [IdleReq EXCEPT !.pc = "logs_wait", !.route = "/logs",
                              !.seen = pushed[srv.managed]]
    /\ UNCHANGED <<sinks, SERVER, logger, buffer, lock, writer, srv, pushed,
                   ncalls>>

\* logs(): buffer.lock().unwrap()
logs_lock ==
    /\ req.pc = "logs_wait"
    /\ LockFree(srv.managed)
    /\ lock' = [lock EXCEPT ![srv.managed] = HttpHolder]
    /\ req' = [req EXCEPT !.pc = "logs_locked"]
    /\ UNCHANGED <<sinks, SERVER, logger, buffer, writer, srv, pushed, ncalls>>

\* Mutant of Snapshot: the loop misses the oldest item
SnapshotSkipOldest(buf) == IF buf = <<>> THEN buf ELSE Tail(buf)

\* logs(): the loop over buffer.iter() copies every item out, oldest first
Snapshot(buf) == buf

\* Mutant of logs_copy: the items are moved out of the buffer
logs_copy_draining ==
    /\ req.pc = "logs_locked"
    /\ req' = [req EXCEPT !.pc = "logs_copied",
                          !.items = Snapshot(buffer[srv.managed]),
                          !.total = pushed[srv.managed]]
    /\ buffer' = [buffer EXCEPT ![srv.managed] = <<>>]
    /\ UNCHANGED <<sinks, SERVER, logger, lock, writer, srv, pushed, ncalls>>

\* logs(): copy the items into log_items, the guard still held
logs_copy ==
    /\ req.pc = "logs_locked"
    /\ req' = [req EXCEPT !.pc = "logs_copied",
                          !.items = Snapshot(buffer[srv.managed]),
                          !.total = pushed[srv.managed]]
    /\ UNCHANGED <<sinks, SERVER, logger, buffer, lock, writer, srv, pushed,
                   ncalls>>

\* Mutant of logs_return: the guard outlives the handler
logs_return_holding ==
    /\ req.pc = "logs_copied"
    /\ req' = [req EXCEPT !.pc = "respond", !.status = 200]
    /\ UNCHANGED <<sinks, SERVER, logger, buffer, lock, writer, srv, pushed,
                   ncalls>>

\* logs(), the loop taken one iteration at a time: the next item of
\* buffer.iter() is cloned and pushed onto log_items
logs_copy_item ==
    /\ req.pc = "logs_locked"
    /\ Len(req.items) < Len(buffer[srv.managed])
    /\ req' = [req EXCEPT !.items =
                  Append(@, buffer[srv.managed][Len(req.items) + 1])]
    /\ UNCHANGED <<sinks, SERVER, logger, buffer, lock, writer, srv, pushed,
                   ncalls>>

\* logs(), the loop taken one iteration at a time: the iterator is exhausted
logs_copy_end ==
    /\ req.pc = "logs_locked"
    /\ Len(req.items) >= Len(buffer[srv.managed])
    /\ req' = [req EXCEPT !.pc = "logs_copied", !.total = pushed[srv.managed]]
    /\ UNCHANGED <<sinks, SERVER, logger, buffer, lock, writer, srv, pushed,
                   ncalls>>

\* logs(): returning (Status::Ok, Json(log_items)) drops the guard
logs_return ==
    /\ req.pc = "logs_copied"
    /\ req' = [req EXCEPT !.pc = "respond", !.status = 200]
    /\ lock' = [lock EXCEPT ![srv.managed] = 0]
    /\ UNCHANGED <<sinks, SERVER, logger, buffer, writer, srv, pushed, ncalls>>

\* GET / is routed to index()
get_index ==
    /\ CanRequest
    /\ req' = [IdleReq EXCEPT !.pc = "respond", !.route = "/", !.status = 200]
    /\ UNCHANGED <<sinks, SERVER, logger, buffer, lock, writer, srv, pushed,
                   ncalls>>

\* A request no route matches: Rocket's default catcher answers 404
get_unmatched ==
    /\ CanRequest
    /\ req' = [IdleReq EXCEPT !.pc = "respond", !.route = "/missing",
                              !.status = 404]
    /\ UNCHANGED <<sinks, SERVER, logger, buffer, lock, writer, srv, pushed,
                   ncalls>>

\* Mutant of CorsHeaders: the credentials header is forgotten
CorsHeadersNoCredentials ==
    { <<"Access-Control-Allow-Origin", "*">>,
      <<"Access-Control-Allow-Methods", "POST, GET, PATCH, OPTIONS, DELETE">>,
      <<"Access-Control-Allow-Headers", "*">> }

\* The four headers CORS::on_response sets
CorsHeaders ==
    { <<"Access-Control-Allow-Origin", "*">>,
      <<"Access-Control-Allow-Methods", "POST, GET, PATCH, OPTIONS, DELETE">>,
      <<"Access-Control-Allow-Headers", "*">>,
      <<"Access-Control-Allow-Credentials", "true">> }

\* The error page Rocket's default catcher writes for a request no route
\* matches; it names the status the router produced
CatcherPage(status) == <<"default catcher error page", status>>

\* The response body: the JSON array for /logs, the text of index() for /,
\* the default catcher's error page for an unmatched route
Body(r) ==
    CASE r.route = "/logs" -> ToJson(r.items)
      [] r.route = "/" -> "Logserver online"
      [] OTHER -> CatcherPage(r.status)

\* Mutant of on_response: the headers are set, the status is left alone
on_response_keep_status ==
    /\ req.pc = "respond"
    /\ req' = [req EXCEPT !.pc = "sent", !.headers = CorsHeaders,
                          !.body = Body(req)]
    /\ UNCHANGED <<sinks, SERVER, logger, buffer, lock, writer, srv, pushed,
                   ncalls>>

\* The handler's result is serialized, CORS::on_response sets the headers and
\* the status, and the response is written out
on_response ==
    /\ req.pc = "respond"
    /\ req' = [req EXCEPT !.pc = "sent", !.status = 200,
                          !.headers = CorsHeaders, !.body = Body(req)]
    /\ UNCHANGED <<sinks, SERVER, logger, buffer, lock, writer, srv, pushed,
                   ncalls>>

\* ------------------------------------------------------------------ spec
\* One LogServer, its writer threads and the HTTP server
Next ==
    \/ \E level \in SinkLevels, n \in 1..MaxCap :
          Len(sinks) = 0 /\ with_settings(level, n)
    \/ \E s \in SinkIds : start_server(s)
    \/ start_lock
    \/ start_clone
    \/ start_ok
    \/ start_fail
    \/ \E w \in Writers, s \in SinkIds, r \in Records : log(w, s, r[1], r[2], r[3])
    \/ \E w \in Writers : log_lock(w)
    \/ \E w \in Writers : log_push(w)
    \/ get_logs
    \/ logs_lock
    \/ logs_copy
    \/ logs_return
    \/ on_response

Spec == Init /\ [][Next]_vars

\* Several LogServers of minimum level Trace and MaxCap records, the logger
\* registration and the HTTP server, with one writer thread
NextWiring ==
    \/ with_settings("Trace", MaxCap)
    \/ \E s \in SinkIds : init_logger(s)
    \/ \E s \in SinkIds : start_server(s)
    \/ start_lock
    \/ start_clone
    \/ start_ok
    \/ start_fail
    \/ \E s \in SinkIds, r \in WiringRecords : log(1, s, r[1], r[2], r[3])
    \/ log_lock(1)
    \/ log_push(1)
    \/ get_logs
    \/ logs_lock
    \/ logs_copy
    \/ logs_return
    \/ on_response

SpecWiring == Init /\ [][NextWiring]_vars

\* The level filter on its own: one LogServer of any minimum level, and
\* enabled() called with every level
NextEnabled ==
    \/ \E level \in Levels, n \in 1..MaxCap :
          Len(sinks) = 0 /\ with_settings(level, n)
    \/ \E w \in Writers, s \in SinkIds, level \in Levels : enabled(w, s, level)
    \/ \E w \in Writers : enabled_return(w)

SpecEnabled == Init /\ [][NextEnabled]_vars

\* One LogServer of minimum level Trace, its writer threads, and the HTTP
\* server answering every kind of request: GET /, GET /logs and a request no
\* route matches
NextHttp ==
    \/ \E n \in 1..MaxCap : Len(sinks) = 0 /\ with_settings("Trace", n)
    \/ \E s \in SinkIds : start_server(s)
    \/ start_lock
    \/ start_clone
    \/ start_ok
    \/ start_fail
    \/ \E w \in Writers, s \in SinkIds, r \in WiringRecords :
          log(w, s, r[1], r[2], r[3])
    \/ \E w \in Writers : log_lock(w)
    \/ \E w \in Writers : log_push(w)
    \/ get_index
    \/ get_unmatched
    \/ get_logs
    \/ logs_lock
    \/ logs_copy
    \/ logs_return
    \/ on_response

SpecHttp == Init /\ [][NextHttp]_vars

\* ------------------------------------------------------------------ the locks
\* The statement of init that takes the mutex of the global SERVER,
\* `*SERVER.lock().unwrap() = server.clone()`, one step at a time.

\* Whether the init() call that makes LogServer s has returned
Returned(s) ==
    /\ s \in Constructed
    /\ \A w \in Writers :
          writer[w].pc \in {"init_wait", "init_locked"} => writer[w].sink # s

\* LogServer::init up to the lock: thread w builds the buffer and the value
init_new(w, settings) ==
    /\ writer[w].pc = "idle"
    /\ Len(sinks) < MaxSinks
    /\ sinks' = Append(sinks, settings)
    /\ writer' = [writer EXCEPT ![w] =
           [pc |-> "init_wait", sink |-> Len(sinks) + 1,
            level |-> settings.level, item |-> NoItem, ret |-> FALSE]]
    /\ UNCHANGED <<SERVER, logger, buffer, lock, srv, req, pushed, ncalls>>

\* LogServer::init: SERVER.lock().unwrap()
init_lock(w) ==
    /\ writer[w].pc = "init_wait"
    /\ LockFree(0)
    /\ lock' = [lock EXCEPT ![0] = w]
    /\ writer' = [writer EXCEPT ![w].pc = "init_locked"]
    /\ UNCHANGED <<sinks, SERVER, logger, buffer, srv, req, pushed, ncalls>>

\* LogServer::init: the clone is stored in SERVER, the guard is dropped at the
\* end of the statement and init returns the LogServer
init_store(w) ==
    /\ writer[w].pc = "init_locked"
    /\ SERVER' = writer[w].sink
    /\ lock' = [lock EXCEPT ![0] = 0]
    /\ writer' = [writer EXCEPT ![w] = IdleWriter]
    /\ UNCHANGED <<sinks, logger, buffer, srv, req, pushed, ncalls>>

\* One LogServer of minimum level Trace, its writer threads and GET /logs
\* requests, the copy loop of logs() taken one item at a time
NextSnap ==
    \/ \E n \in 1..MaxCap : Len(sinks) = 0 /\ with_settings("Trace", n)
    \/ \E s \in SinkIds : start_server(s)
    \/ start_lock
    \/ start_clone
    \/ start_ok
    \/ start_fail
    \/ \E w \in Writers, s \in SinkIds, r \in WiringRecords :
          log(w, s, r[1], r[2], r[3])
    \/ \E w \in Writers : log_lock(w)
    \/ \E w \in Writers : log_push(w)
    \/ get_logs
    \/ logs_lock
    \/ logs_copy_item
    \/ logs_copy_end
    \/ logs_return
    \/ on_response

SpecSnap == Init /\ [][NextSnap]_vars

\* Application threads that log to the LogServers that thread 1 constructs,
\* the server thread and GET /logs requests, with the statements that take
\* the SERVER mutex one step at a time.
NextLive ==
    \/ init_new(1, with_values(TestPort, "Trace", MaxCap))
    \/ init_lock(1)
    \/ init_store(1)
    \/ \E s \in SinkIds : Returned(s) /\ start_server(s)
    \/ start_lock
    \/ start_clone
    \/ start_ok
    \/ start_fail
    \/ \E w \in Writers, s \in SinkIds, r \in LiveRecords :
          Returned(s) /\ log(w, s, r[1], r[2], r[3])
    \/ \E w \in Writers : log_lock(w)
    \/ \E w \in Writers : log_push(w)
    \/ get_logs
    \/ logs_lock
    \/ logs_copy
    \/ logs_return
    \/ on_response

\* Fair scheduling: a thread that can take the next step of a call it is in,
\* and stays able to, takes it (nobody is obliged to make a call or send a
\* request).  Taking a mutex is such a step only while the mutex stays free:
\* std::sync::Mutex promises no waiter that it gets the mutex next.
SpecLive ==
    /\ Init
    /\ [][NextLive]_vars
    /\ WF_vars(init_lock(1))
    /\ WF_vars(init_store(1))
    /\ \A w \in Writers : WF_vars(log_lock(w)) /\ WF_vars(log_push(w))
    /\ WF_vars(start_lock)
    /\ WF_vars(start_clone)
    /\ WF_vars(start_ok \/ start_fail)
    /\ WF_vars(logs_lock)
    /\ WF_vars(logs_copy)
    /\ WF_vars(logs_return)
    /\ WF_vars(on_response)

\* The message of the n-th log() call under SpecOrder: its number, rendered
CallMessage(n) == ToString(n)

\* One LogServer of minimum level Trace and up to MaxCalls records, writer
\* threads whose every record carries the number of the call as its message,
\* and GET /logs requests
NextOrder ==
    \/ \E n \in 1..MaxCalls : Len(sinks) = 0 /\ with_settings("Trace", n)
    \/ \E s \in SinkIds : start_server(s)
    \/ start_lock
    \/ start_clone
    \/ start_ok
    \/ start_fail
    \/ \E w \in Writers, s \in SinkIds :
          log(w, s, "Info", ModApp, CallMessage(ncalls + 1))
    \/ \E w \in Writers : log_lock(w)
    \/ \E w \in Writers : log_push(w)
    \/ get_logs
    \/ logs_lock
    \/ logs_copy
    \/ logs_return
    \/ on_response

SpecOrder == Init /\ [][NextOrder]_vars

\* log() and enabled() called on every LogServer value a caller can hold
NextDefault ==
    \/ \E level \in SinkLevels, n \in 1..MaxCap :
          Len(sinks) = 0 /\ with_settings(level, n)
    \/ \E w \in Writers, s \in 0..MaxSinks, level \in Levels :
          enabled(w, s, level)
    \/ \E w \in Writers : enabled_return(w)
    \/ \E w \in Writers, s \in 0..MaxSinks, r \in WiringRecords :
          log(w, s, r[1], r[2], r[3])
    \/ \E w \in Writers : log_lock(w)
    \/ \E w \in Writers : log_push(w)

SpecDefault == Init /\ [][NextDefault]_vars

\* LogServers of any port, and the start of the HTTP server
NextBind ==
    \/ \E port \in Ports, n \in 1..MaxCap : init(with_values(port, "Trace", n))
    \/ \E s \in SinkIds : start_server(s)
    \/ start_lock
    \/ start_clone
    \/ start_ok
    \/ start_fail
    \/ get_index
    \/ get_unmatched
    \/ on_response

SpecBind == Init /\ [][NextBind]_vars

\* ------------------------------------------------------------------ claims
Cap(s) == sinks[s].num_records

Min(a, b) == IF a < b THEN a ELSE b

\* The severity order of the specification, most severe first
SeverityOrder == <<"Error", "Warn", "Info", "Debug", "Trace">>

Rank(l) == CHOOSE i \in 1..Len(SeverityOrder) : SeverityOrder[i] = l

AtLeastAsSevere(l, minimum) == Rank(l) <= Rank(minimum)

\* The module names that belong to the HTTP server's own machinery
ServerModules == {ModRocket, ModReqwest}

\* The module names the self-exclusion filter turns away
SelfExcluded == {ModRocket, ModReqwest, ModMyRocket}

\* The three fields of a stored item
Fields(item) ==
    [level |-> item.level, module |-> item.module, message |-> item.message]

Quiescent == \A w \in Writers : writer[w].pc = "idle"

LogsAnswered == req.route = "/logs" /\ req.pc = "sent"

\* C1: in every reachable state, whatever the interleaving of log() calls and
\* GET /logs snapshots, a buffer holds at most its configured capacity.
C1_LenWithinCapacity ==
    \A s \in SinkIds :
        IF s \in Constructed
        THEN Len(buffer[s]) >= 0 /\ Len(buffer[s]) <= Cap(s)
        ELSE buffer[s] = <<>>

\* A full buffer that has been pushed into more often than it has slots, seen
\* while the /logs handler holds its lock.
C1_Witness ==
    /\ req.pc = "logs_copied"
    /\ 1 \in Constructed
    /\ pushed[1] > Cap(1)
    /\ Len(buffer[1]) = Cap(1)

\* C2: once more items than the capacity C were pushed, the buffer holds
\* exactly C items, and they are the last C items pushed, in the order they
\* were pushed (before that, it holds every item pushed, in that order).
C2_LastCapacityItems ==
    \A s \in Constructed :
        /\ Len(buffer[s]) = Min(Cap(s), pushed[s])
        /\ pushed[s] > Cap(s) => Len(buffer[s]) = Cap(s)
        /\ \A i \in 1..Len(buffer[s]) :
              buffer[s][i].seq = pushed[s] - Len(buffer[s]) + i

\* Every call has returned, and one item more than the capacity of 2 was pushed.
C2_Witness ==
    /\ Quiescent
    /\ 1 \in Constructed
    /\ Cap(1) = 2
    /\ pushed[1] = 3
    /\ Len(buffer[1]) = 2

\* C3: enabled(level) returns true exactly when level is at least as severe
\* as the configured minimum, under Error > Warn > Info > Debug > Trace.
C3_EnabledMatchesSeverity ==
    \A w \in Writers :
        writer[w].pc = "enabled_ret" =>
            (writer[w].ret <=>
                AtLeastAsSevere(writer[w].level, sinks[writer[w].sink].level))

\* One enabled() call with the minimum level itself has answered true, another
\* with the level one step less severe has answered false.
C3_Witness ==
    /\ writer[1].pc = "enabled_ret"
    /\ writer[2].pc = "enabled_ret"
    /\ writer[1].level = sinks[writer[1].sink].level
    /\ writer[1].ret
    /\ Rank(writer[2].level) = Rank(sinks[writer[2].sink].level) + 1
    /\ ~writer[2].ret

\* C4: when the writer threads have all returned, a buffer of capacity C that
\* was given N accepted items holds min(C, N) items; each stored item is the
\* item of one log() call (its fields are those of one submitted record, from
\* one thread), no two stored items are the same call's, and the only items
\* missing are the oldest ones.
C4_ConcurrentPushes ==
    \A s \in Constructed :
        /\ Quiescent => Len(buffer[s]) = Min(Cap(s), pushed[s])
        /\ \A i \in 1..Len(buffer[s]) :
              /\ buffer[s][i].by \in Writers
              /\ \E r \in Records :
                    /\ AtLeastAsSevere(r[1], sinks[s].level)
                    /\ Fields(buffer[s][i]) =
                         [level |-> LevelToString(r[1]), module |-> r[2],
                          message |-> r[3]]
        /\ \A i, j \in 1..Len(buffer[s]) :
              i # j => buffer[s][i].seq # buffer[s][j].seq
        /\ { buffer[s][i].seq : i \in 1..Len(buffer[s]) } =
             (pushed[s] - Len(buffer[s]) + 1)..pushed[s]

\* Both threads have returned and the full buffer holds an item of each.
C4_Witness ==
    /\ Quiescent
    /\ 1 \in Constructed
    /\ pushed[1] > Cap(1)
    /\ Len(buffer[1]) = 2
    /\ buffer[1][1].by # buffer[1][2].by

\* C5: a /logs snapshot holds every item whose log() call had returned when
\* the handler started, except the items that capacity pressure evicted: the
\* k-th item pushed is evicted once C further items were pushed after it.
C5_SnapshotHasReturnedItems ==
    (req.route = "/logs" /\ req.pc \in {"logs_copied", "respond", "sent"}) =>
        \A k \in 1..req.seen :
            (req.total - k < Cap(srv.managed)) =>
                \E i \in 1..Len(req.items) : req.items[i].seq = k

\* Two calls had returned when the handler started and a third item was pushed
\* before it took the lock: the first item was evicted, the second is served.
C5_Witness ==
    /\ req.route = "/logs"
    /\ req.pc = "respond"
    /\ Cap(srv.managed) = 2
    /\ req.seen = 2
    /\ req.total = 3
    /\ \E i \in 1..Len(req.items) : req.items[i].seq = 2

\* C6: no item whose module is one of the HTTP server's own is ever in a
\* buffer, in a snapshot or in the body of a /logs response.
C6_ServerModulesNeverStored ==
    /\ \A s \in SinkIds : \A i \in 1..Len(buffer[s]) :
          buffer[s][i].module \notin ServerModules
    /\ \A i \in 1..Len(req.items) : req.items[i].module \notin ServerModules
    /\ LogsAnswered =>
          \A i \in 1..Len(req.body) : req.body[i].module \notin ServerModules

\* A sink of minimum level Trace lets every severity pass; of two calls one
\* was stored and served, the other was turned away by its module name.
C6_Witness ==
    /\ 1 \in Constructed
    /\ sinks[1].level = "Trace"
    /\ Quiescent
    /\ ncalls = 2
    /\ pushed[1] = 1
    /\ LogsAnswered
    /\ Len(req.body) = 1

\* C7: a log() call with a disabled level or an excluded module changes
\* nothing of the buffer and leaves nothing to push; a call with an enabled
\* level and a module that is not excluded goes on to the push whatever the
\* buffer holds, and its push puts its item last in the buffer.  (Every log()
\* step counts a call and every push step counts a push.)
C7_AcceptanceIgnoresBuffer ==
    [][ /\ ncalls' # ncalls =>
             \A w \in Writers, s \in SinkIds, r \in Records :
                 log(w, s, r[1], r[2], r[3]) =>
                     IF AtLeastAsSevere(r[1], sinks[s].level)
                          /\ r[2] \notin SelfExcluded
                     THEN /\ writer'[w].pc = "wait"
                          /\ writer'[w].sink = s
                          /\ Fields(writer'[w].item) =
                               [level |-> LevelToString(r[1]), module |-> r[2],
                                message |-> r[3]]
                     ELSE /\ writer' = writer
                          /\ buffer' = buffer
                          /\ pushed' = pushed
        /\ pushed' # pushed =>
             \A w \in Writers :
                 log_push(w) =>
                     LET s == writer[w].sink IN
                     /\ buffer'[s] # <<>>
                     /\ Fields(buffer'[s][Len(buffer'[s])]) =
                          Fields(writer[w].item)
                     /\ \A i \in 1..(Len(buffer'[s]) - 1) :
                           buffer'[s][i] \in
                               { buffer[s][j] : j \in 1..Len(buffer[s]) }
      ]_vars

\* A call was accepted while the buffer was full: its item waits for the lock.
C7_Witness ==
    /\ 1 \in Constructed
    /\ Len(buffer[1]) = Cap(1)
    /\ \E w \in Writers : writer[w].pc = "wait" /\ writer[w].sink = 1

\* C8: the items logs() copies are the buffer's items at that moment, oldest
\* first; the /logs response has status 200 and its body is the array of
\* those items' level, module and message, unchanged and in the same order;
\* the body of a buffer nothing was pushed into is the empty array.
C8_LogsBodyIsBuffer ==
    /\ req.pc = "logs_copied" => req.items = buffer[srv.managed]
    /\ \A i \in 1..Len(req.items) :
          req.items[i].seq = req.total - Len(req.items) + i
    /\ LogsAnswered =>
          /\ req.status = 200
          /\ Len(req.body) = Len(req.items)
          /\ \A i \in 1..Len(req.items) : req.body[i] = Fields(req.items[i])
          /\ req.total = 0 => req.body = <<>>

\* A /logs response with two items in its body.
C8_Witness ==
    /\ LogsAnswered
    /\ Len(req.body) = 2
    /\ req.body[1] # req.body[2]

\* C9: when the server was started on the registered LogServer and nothing
\* was logged after the start, a /logs response is exactly the items the
\* registered LogServer accepted before the start (at most its capacity of
\* them), in the order they were logged.
C9_ItemsBeforeStartServed ==
    ( /\ LogsAnswered
      /\ logger # 0
      /\ srv.by = logger
      /\ srv.before >= 1
      /\ srv.before <= Cap(logger)
      /\ pushed[logger] = srv.before )
    => req.body = [i \in 1..Len(buffer[logger]) |-> Fields(buffer[logger][i])]

\* C10: the server serves the buffer of the LogServer start_server was called
\* on, whatever other LogServers were constructed: its managed LogServer is
\* that one, and the items logs() copies are that one's items.
C10_ServesOwnBuffer ==
    /\ srv.pc = "serving" => srv.managed = srv.by
    /\ req.pc = "logs_copied" => req.items = buffer[srv.by]

\* C11: every response that was sent, whichever route it answers (GET /,
\* GET /logs or an unmatched route) and whatever status the handler produced,
\* carries the four CORS headers with their values.
C11_AllResponsesCarryCors ==
    req.pc = "sent" =>
        /\ req.route \in {"/", "/logs", "/missing"}
        /\ <<"Access-Control-Allow-Origin", "*">> \in req.headers
        /\ <<"Access-Control-Allow-Methods",
              "POST, GET, PATCH, OPTIONS, DELETE">> \in req.headers
        /\ <<"Access-Control-Allow-Headers", "*">> \in req.headers
        /\ <<"Access-Control-Allow-Credentials", "true">> \in req.headers

\* The response to a request no route matched was sent with four headers.
C11_Witness ==
    /\ req.pc = "sent"
    /\ req.route = "/missing"
    /\ Cardinality(req.headers) = 4

\* C12: a response that went through the CORS layer has status 200, whatever
\* status the handler or the router gave it (404 for an unmatched route), and
\* the handlers of the two defined routes answer 200 themselves.
C12_StatusForcedTo200 ==
    /\ req.pc = "sent" => req.status = 200
    /\ (req.pc = "respond" /\ req.route \in {"/", "/logs"}) => req.status = 200
    /\ (req.pc = "respond" /\ req.route = "/missing") => req.status = 404

\* The answer to an unmatched route, 404 before the CORS layer, was sent as
\* 200; its body is still the catcher's page for 404.
C12_Witness ==
    /\ req.pc = "sent"
    /\ req.route = "/missing"
    /\ req.status = 200
    /\ req.body = CatcherPage(404)

\* C13: start_server returns once the server thread is spawned, before the
\* server reads SERVER or binds; every step of the server's startup, the
\* failing one included, changes nothing outside the server thread (no
\* LogServer, buffer, buffer lock, registered logger or calling thread; the
\* SERVER mutex is taken and released before the launch, so a failed launch
\* leaves it free of the server thread); and after a failed start a log()
\* call is accepted or turned away exactly as the level and the module decide.
C13_StartFailureStaysInThread ==
    [][ /\ srv' # srv =>
             /\ UNCHANGED <<sinks, SERVER, logger, buffer, writer, req, pushed,
                            ncalls>>
             /\ \A s \in SinkIds : lock'[s] = lock[s]
             /\ srv.pc = "none" => (srv'.pc = "spawned" /\ lock' = lock)
             /\ srv'.pc \in {"serving", "failed"} =>
                   /\ srv.pc = "cloned"
                   /\ lock' = lock
                   /\ lock[0] # StartHolder
        /\ (srv.pc = "failed" /\ ncalls' # ncalls) =>
             \A s \in SinkIds, r \in WiringRecords :
                 log(1, s, r[1], r[2], r[3]) =>
                     IF AtLeastAsSevere(r[1], sinks[s].level)
                          /\ r[2] \notin ServerModules
                     THEN /\ writer'[1].pc = "wait"
                          /\ writer'[1].sink = s
                          /\ Fields(writer'[1].item) =
                               [level |-> LevelToString(r[1]), module |-> r[2],
                                message |-> r[3]]
                     ELSE writer' = writer
      ]_vars

\* The server failed to start, and the registered LogServer has stored an item
\* since then.
C13_Witness ==
    /\ srv.pc = "failed"
    /\ logger # 0
    /\ pushed[logger] > srv.before
    /\ buffer[logger] # <<>>

\* C14: for every port given to Settings::with_values, the port the server
\* listens on is the port of the Settings of the LogServer it serves.
C14_BindsSettingsPort ==
    srv.pc = "serving" => srv.port = sinks[srv.managed].port

\* C15: no log() or enabled() call panics, on whichever LogServer value it is
\* made, with whichever level, module and message, whatever the buffer holds.
C15_SinkCallsNeverPanic ==
    \A w \in Writers : writer[w].pc # "panicked"

\* C16: the /logs handler holds the lock of the buffer it serves exactly from
\* taking it until it has copied the items and returns; while the response
\* is serialized and written (and after), the HTTP side holds no buffer lock,
\* and a thread in log() holds a lock only between taking it and its push.
C16_LockOnlyWhileCopying ==
    /\ \A s \in SinkIds :
          lock[s] = HttpHolder <=>
              (s = srv.managed /\ req.pc \in {"logs_locked", "logs_copied"})
    /\ req.pc \in {"respond", "sent"} =>
          \A s \in SinkIds : lock[s] # HttpHolder
    /\ \A s \in SinkIds, w \in Writers :
          lock[s] = w <=> (writer[w].pc = "locked" /\ writer[w].sink = s)

\* While the /logs response waits to be serialized and written, a log() call
\* made after the copy holds the buffer's lock, and another has completed.
C16_Witness ==
    /\ req.route = "/logs"
    /\ req.pc = "respond"
    /\ pushed[srv.managed] > req.total
    /\ \E w \in Writers : lock[srv.managed] = w

\* C17: no step of the handling of a request changes a buffer (its items,
\* their order, its length), the count of pushes, a LogServer or a thread in
\* log(); the steps of GET / and of an unmatched request leave every lock as
\* it is, and those of GET /logs touch the lock of the served buffer only.
C17_RoutesReadOnly ==
    [][ req' # req =>
          /\ buffer' = buffer
          /\ pushed' = pushed
          /\ writer' = writer
          /\ sinks' = sinks
          /\ req'.route \in {"/", "/missing"} => lock' = lock
          /\ req'.route = "/logs" =>
                \A s \in SinkIds : s # srv.managed => lock'[s] = lock[s]
      ]_vars

\* A /logs response was sent and the buffer still holds the two items it
\* served, nothing having been pushed since.
C17_Witness ==
    /\ LogsAnswered
    /\ Len(req.items) = 2
    /\ buffer[srv.managed] = req.items
    /\ pushed[srv.managed] = req.total

\* C18: the items a /logs handler copies are the buffer at the point of the
\* lock order where it copies them: the last min(C, n) of the n items pushed
\* so far, consecutive, oldest first, ending at the newest; the copy is not
\* altered afterwards; and that point is never before the point where the
\* handler started, which is never before the point of the snapshot before
\* it (the count of pushes never decreases).
C18_SnapshotIsOnePoint ==
    [][ /\ (req.pc = "logs_locked" /\ req'.pc = "logs_copied") =>
             /\ req'.items = buffer[srv.managed]
             /\ req'.total = pushed[srv.managed]
             /\ Len(req'.items) = Min(Cap(srv.managed), req'.total)
             /\ \A i \in 1..Len(req'.items) :
                   req'.items[i].seq = req'.total - Len(req'.items) + i
             /\ req'.total >= req.seen
        /\ (req.pc \in {"logs_copied", "respond"} /\ req' # req) =>
             /\ req'.items = req.items
             /\ req'.total = req.total
        /\ req'.pc = "logs_wait" =>
             /\ req'.seen = IF req.pc = "logs_wait" THEN req.seen
                            ELSE pushed[srv.managed]
             /\ req'.seen >= req.total
        /\ \A s \in SinkIds : pushed'[s] >= pushed[s]
      ]_vars

\* A handler that started after one push has copied, item by item, the buffer
\* after three: the two newest items, the first one evicted.
C18_Witness ==
    /\ req.pc = "logs_copied"
    /\ req.seen = 1
    /\ req.total = 3
    /\ Len(req.items) = 2
    /\ req.items[1].seq = 2
    /\ req.items[2].seq = 3

\* C19: no thread ever holds the SERVER mutex and a buffer mutex together,
\* and under fair scheduling every call and request that has started
\* finishes: a LogServer construction returns, a started server thread gets
\* to its launch, a log() call returns and a GET /logs request is answered.
C19_NoWaitForever ==
    /\ [](\A s \in SinkIds : lock[0] # 0 => lock[s] # lock[0])
    /\ [](\A s, u \in 0..MaxSinks :
            (s # u /\ lock[s] # 0) => lock[u] # lock[s])
    /\ \A w \in Writers :
          (writer[w].pc \in {"init_wait", "init_locked"}) ~>
              (writer[w].pc = "idle")
    /\ \A w \in Writers :
          (writer[w].pc \in {"wait", "locked"}) ~> (writer[w].pc = "idle")
    /\ (srv.pc \in {"spawned", "start_locked", "cloned"}) ~>
          (srv.pc \in {"serving", "failed"})
    /\ (req.pc \in {"logs_wait", "logs_locked", "logs_copied", "respond"}) ~>
          (req.pc = "sent")

\* The case C19 is about: a thread in log() waits for the mutex of a buffer
\* while the /logs handler holds that mutex.
C19_Witness ==
    /\ req.pc \in {"logs_locked", "logs_copied"}
    /\ \E w \in Writers :
          /\ writer[w].pc = "wait"
          /\ lock[writer[w].sink] = HttpHolder

\* The number of the call that submitted a message under SpecOrder
CallNo(message) == CHOOSE n \in 1..MaxCalls : CallMessage(n) = message

\* Whether the items of one thread appear in the order of that thread's calls
InCallOrder(items) ==
    \A i, j \in 1..Len(items) :
        (i < j /\ items[i].by = items[j].by) =>
            CallNo(items[i].message) < CallNo(items[j].message)

\* C20: in every buffer state and every /logs snapshot, two items accepted
\* from the same thread appear in the order in which that thread made the
\* calls, whatever the other threads did in between.
C20_PerThreadOrderKept ==
    /\ \A s \in SinkIds : InCallOrder(buffer[s])
    /\ InCallOrder(req.items)

\* A snapshot holds two items of one thread with an item of another thread
\* between them.
C20_Witness ==
    /\ req.pc = "logs_copied"
    /\ Len(req.items) = 3
    /\ req.items[1].by = req.items[3].by
    /\ req.items[2].by # req.items[1].by
    /\ CallNo(req.items[1].message) < CallNo(req.items[3].message)

====
